---- MODULE Spec2Model ----
(***************************************************************************)
(* Model of addfile.py: one invocation of main() classifies a file by its  *)
(* MIME type, moves it under <folder>/<categoria>/ and appends a row to    *)
(* <folder>/recap.csv.  The filesystem is the only persistent state.       *)
(*                                                                         *)
(* Strings that the code inspects character by character (MIME types) are  *)
(* sequences of one-character strings.  A directory entry name is a pair   *)
(* <<stem, extension>>, a path is a sequence of entry names.               *)
(***************************************************************************)
EXTENDS Integers, Sequences, FiniteSets, TLC

VARIABLES fs, loc, runs, limit, active, ledger0, nFull, nLogFail, probe

vars == <<fs, loc, runs, limit, active, ledger0, nFull, nLogFail, probe>>

\* Bound on the number of invocations of main() in one behaviour.
MaxInvocations == 3

\* Bound on the number of invocations when two run at the same time.
MaxRaceInvocations == 2

Procs == {1, 2}

-----------------------------------------------------------------------------
(* Character strings *)

W_audio == <<"a", "u", "d", "i", "o">>
W_image == <<"i", "m", "a", "g", "e">>
W_text == <<"t", "e", "x", "t">>
W_application == <<"a", "p", "p", "l", "i", "c", "a", "t", "i", "o", "n">>
W_video == <<"v", "i", "d", "e", "o">>
W_unknown == <<"T", "i", "p", "o", " ", "s", "c", "o", "n", "o", "s", "c", "i", "u", "t", "o">>
Slash == <<"/">>

\* Python's None where a MIME string is expected: a sequence that is no string.
NoneMime == <<"<None>">>

\* Python's None where a category name is expected.
NoneCat == "<None>"

\* str.startswith
startswith(s, prefix) ==
    /\ Len(s) >= Len(prefix)
    /\ SubSeq(s, 1, Len(prefix)) = prefix

\* s.split('/')[0]: the text before the first '/', the whole string without one
split0(s) ==
    LET idx == {i \in 1..Len(s) : s[i] = "/"}
    IN  IF idx = {} THEN s
        ELSE SubSeq(s, 1, (CHOOSE i \in idx : \A j \in idx : i <= j) - 1)

-----------------------------------------------------------------------------
(* Paths *)

Entry(stem, ext) == <<stem, ext>>

recap_csv == Entry("recap", ".csv")

\* os.path.join(a, name) for a single entry name
join(path, name) == Append(path, name)

\* os.path.basename
basename(path) == path[Len(path)]

dirname(path) == SubSeq(path, 1, Len(path) - 1)

Root == << Entry("files", "") >>

NoDir == << Entry("nodir", "") >>

-----------------------------------------------------------------------------
(* MIME types *)

\* mimetypes.types_map restricted to the extensions of the modelled names
types_map(ext) ==
    CASE ext = ".mp3" -> W_audio \o Slash \o <<"m", "p", "e", "g">>
      [] ext = ".png" -> W_image \o Slash \o <<"p", "n", "g">>
      [] ext = ".pdf" -> W_application \o Slash \o <<"p", "d", "f">>
      [] ext = ".csv" -> W_text \o Slash \o <<"c", "s", "v">>
      [] ext = ".mp4" -> W_video \o Slash \o <<"m", "p", "4">>
      [] OTHER -> NoneMime

\* mimetypes.guess_type(path)[0]: decided by the extension of the last entry
guess_type(path) == types_map(basename(path)[2])

classifica_file(mime_type) ==
    IF mime_type = NoneMime THEN NoneCat
    ELSE IF startswith(mime_type, W_audio) THEN "audio"
    ELSE IF startswith(mime_type, W_image) THEN "immagini"
    ELSE IF startswith(mime_type, W_application) \/ startswith(mime_type, W_text)
         THEN "documenti"
    ELSE NoneCat

tipi_validi == {W_image, W_audio, W_text, W_application}

-----------------------------------------------------------------------------
(* The filesystem: a function from the existing paths to their nodes *)

DirNode == [kind |-> "dir", data |-> <<>>]

FileNode(d) == [kind |-> "file", data |-> d]

Absent == [kind |-> "absent", data |-> <<>>]

exists(f, path) == path \in DOMAIN f

isdir(f, path) == exists(f, path) /\ f[path].kind = "dir"

isfile(f, path) == exists(f, path) /\ f[path].kind = "file"

NodeAt(f, path) == IF exists(f, path) THEN f[path] ELSE Absent

\* os.listdir: the names of the entries directly under a directory
listdir(f, path) ==
    {basename(q) : q \in {r \in DOMAIN f : Len(r) = Len(path) + 1 /\ dirname(r) = path}}

Remove(f, path) == [q \in DOMAIN f \ {path} |-> f[q]]

Put(f, path, node) == [q \in DOMAIN f \cup {path} |-> IF q = path THEN node ELSE f[q]]

\* os.path.getsize of a regular file: the number of bytes it holds
getsize(f, path) == Len(f[path].data)

-----------------------------------------------------------------------------
(* The names and contents of the modelled folder *)

a_mp3 == Entry("a", ".mp3")
b_mp3 == Entry("b", ".mp3")
report_pdf == Entry("report", ".pdf")
clip_mp4 == Entry("clip", ".mp4")
song_xyz == Entry("song", ".xyz")
ghost_mp3 == Entry("ghost", ".mp3")
d_audio == Entry("audio", "")
d_documenti == Entry("documenti", "")

\* args.filename when the positional argument is left out
NoName == Entry("", "")

\* Every name an entry of the folder can have, in the order list.sort() gives
NameOrder ==
    <<a_mp3, d_audio, b_mp3, clip_mp4, d_documenti, recap_csv, report_pdf, song_xyz>>

ArgNames ==
    {a_mp3, b_mp3, report_pdf, clip_mp4, song_xyz, ghost_mp3, recap_csv, NoName}

ArgDirs == {Root, NoDir}

BaseFs ==
    (Root :> DirNode)
    @@ (join(Root, a_mp3) :> FileNode(<<1, 2, 3>>))
    @@ (join(Root, b_mp3) :> FileNode(<<4>>))
    @@ (join(Root, report_pdf) :> FileNode(<<5, 6>>))
    @@ (join(Root, clip_mp4) :> FileNode(<<7>>))
    @@ (join(Root, song_xyz) :> FileNode(<<8>>))

Empty == [q \in {} |-> DirNode]

AudioDir == join(Root, d_audio)

\* What <folder>/audio can be before the first invocation
AudioInit ==
    { Empty,
      AudioDir :> DirNode,
      (AudioDir :> DirNode) @@ (join(AudioDir, a_mp3) :> FileNode(<<9, 9>>)),
      (AudioDir :> DirNode) @@ (join(AudioDir, a_mp3) :> DirNode),
      (AudioDir :> DirNode) @@ (join(AudioDir, a_mp3) :> DirNode)
          @@ (join(join(AudioDir, a_mp3), a_mp3) :> FileNode(<<9>>)),
      AudioDir :> FileNode(<<0>>) }

DocInit == { Empty, join(Root, d_documenti) :> DirNode }

-----------------------------------------------------------------------------
(* recap.csv *)

intestazioni == << <<"Nome">>, <<"Tipo">>, <<"Size Byte">>, <<"Percorso">> >>

\* csv.DictWriter.writerow: the values of the dictionary in the order of fieldnames
writerow(file_info) ==
    <<file_info.Nome, file_info.Tipo, file_info.SizeByte, file_info.Percorso>>

OldRow ==
    writerow([Nome |-> Entry("old", ".png"), Tipo |-> types_map(".png"), SizeByte |-> 7,
              Percorso |-> join(join(Root, Entry("immagini", "")), Entry("old", ".png"))])

csv_path_of(folder_path) == join(folder_path, recap_csv)

\* What <folder>/recap.csv can be before the first invocation
LedgerInit ==
    { Empty,
      csv_path_of(Root) :> FileNode(<<>>),
      csv_path_of(Root) :> FileNode(<<intestazioni>>),
      csv_path_of(Root) :> FileNode(<<intestazioni, OldRow>>),
      csv_path_of(Root) :> DirNode }

-----------------------------------------------------------------------------
(* Library calls that change the filesystem.  Each returns the outcome      *)
(* [ok, fs, err]: whether the call returned without raising, the filesystem *)
(* it leaves and the exception raised.  fault is the error the operating    *)
(* system answers with.                                                     *)

MkdirFaults == {"none", "EACCES"}

MoveFaults == {"none", "EXDEV", "EACCES", "ENOSPC", "EPERM"}

OpenFaults == {"none", "EACCES", "ENOSPC"}

\* os.makedirs(path) with exist_ok left False; the parent (the folder) exists
makedirs(f, path, fault) ==
    IF exists(f, path) THEN [ok |-> FALSE, fs |-> f, err |-> "FileExistsError"]
    ELSE IF ~isdir(f, dirname(path)) \/ fault # "none"
    THEN [ok |-> FALSE, fs |-> f, err |-> "OSError"]
    ELSE [ok |-> TRUE, fs |-> Put(f, path, DirNode), err |-> ""]

\* shutil.move that refuses every existing destination instead of replacing a file
shutil_move_refusing(f, src, dst, fault) ==
    LET real_dst == IF isdir(f, dst) THEN join(dst, basename(src)) ELSE dst
    IN  IF exists(f, real_dst) \/ ~isfile(f, src) \/ ~isdir(f, dirname(real_dst))
           \/ fault \notin {"none", "EXDEV"}
        THEN [ok |-> FALSE, fs |-> f, err |-> "shutil.Error"]
        ELSE [ok |-> TRUE, fs |-> Put(Remove(f, src), real_dst, f[src]), err |-> ""]

\* shutil.move(src, dst) of a regular file: into dst when dst is a directory
\* (refusing an existing entry there), else os.rename onto dst, and when
\* os.rename fails, copy2 followed by os.unlink of the source.
shutil_move(f, src, dst, fault) ==
    LET real_dst == IF isdir(f, dst) THEN join(dst, basename(src)) ELSE dst
    IN  IF isdir(f, dst) /\ exists(f, real_dst)
        THEN [ok |-> FALSE, fs |-> f, err |-> "shutil.Error"]
        ELSE IF ~isfile(f, src) \/ ~isdir(f, dirname(real_dst))
        THEN [ok |-> FALSE, fs |-> f, err |-> "OSError"]
        ELSE CASE fault = "none" ->
                    [ok |-> TRUE, fs |-> Put(Remove(f, src), real_dst, f[src]), err |-> ""]
               [] fault = "EXDEV" ->
                    [ok |-> TRUE, err |-> "",
                     fs |-> Remove(Put(f, real_dst, FileNode(f[src].data)), src)]
               [] fault = "EACCES" ->
                    [ok |-> FALSE, fs |-> f, err |-> "OSError"]
               [] fault = "ENOSPC" ->
                    [ok |-> FALSE, fs |-> Put(f, real_dst, FileNode(<<>>)), err |-> "OSError"]
               [] fault = "EPERM" ->
                    [ok |-> FALSE, fs |-> Put(f, real_dst, FileNode(f[src].data)),
                     err |-> "OSError"]

\* scrivi_log_csv writing the header on every call
append_log_with_header(f, csv_path, file_esiste, file_info, fault) ==
    IF isdir(f, csv_path) \/ ~isdir(f, dirname(csv_path)) \/ fault # "none"
    THEN [ok |-> FALSE, fs |-> f]
    ELSE LET old == IF exists(f, csv_path) THEN f[csv_path].data ELSE <<>>
         IN  [ok |-> TRUE,
              fs |-> Put(f, csv_path, FileNode(old \o <<intestazioni, writerow(file_info)>>))]

\* scrivi_log_csv after its existence test: open(csv_path, 'a'), the header
\* when the file did not exist at the test, the row, close.
append_log(f, csv_path, file_esiste, file_info, fault) ==
    IF isdir(f, csv_path) \/ ~isdir(f, dirname(csv_path)) \/ fault = "EACCES"
    THEN [ok |-> FALSE, fs |-> f]
    ELSE LET old == IF exists(f, csv_path) THEN f[csv_path].data ELSE <<>>
         IN  IF fault = "ENOSPC"
             THEN [ok |-> FALSE, fs |-> Put(f, csv_path, FileNode(old))]
             ELSE [ok |-> TRUE,
                   fs |-> Put(f, csv_path,
                              FileNode(old
                                       \o (IF ~file_esiste THEN <<intestazioni>> ELSE <<>>)
                                       \o <<writerow(file_info)>>))]

-----------------------------------------------------------------------------
(* main(): the listing of the folder *)

\* The filter of the listing without the exclusion of recap.csv
movable_with_recap(f, folder_path, name) ==
    /\ name \in listdir(f, folder_path)
    /\ isfile(f, join(folder_path, name))
    /\ guess_type(join(folder_path, name)) # NoneMime
    /\ split0(guess_type(join(folder_path, name))) \in tipi_validi

movable(f, folder_path, name) ==
    /\ name \in listdir(f, folder_path)
    /\ isfile(f, join(folder_path, name))
    /\ name # recap_csv
    /\ guess_type(join(folder_path, name)) # NoneMime
    /\ split0(guess_type(join(folder_path, name))) \in tipi_validi

\* available_files after available_files.sort()
available_files_of(f, folder_path) ==
    LET keep(name) == movable(f, folder_path, name)
    IN  SelectSeq(NameOrder, keep)

Range(s) == {s[i] : i \in 1..Len(s)}

-----------------------------------------------------------------------------
(* State of one invocation *)

Idle ==
    [pc |-> "idle", filename |-> NoName, directory |-> Root, available_files |-> <<>>,
     mime_type |-> NoneMime, size |-> 0, categoria |-> NoneCat, nuovo_percorso |-> <<>>,
     file_esiste |-> FALSE, exit |-> -1, out |-> <<>>, fs0 |-> Empty, moved |-> FALSE,
     logged |-> FALSE, move_fault |-> "none"]

Set(p, r) == loc' = [loc EXCEPT ![p] = r]

\* print(...) the given lines, then sys.exit(code) or the end of main()
Exit(l, code, lines) == [l EXCEPT !.pc = "done", !.exit = code, !.out = @ \o lines]

file_path_of(l) == join(l.directory, l.filename)

destinazione_cartella(l) == join(l.directory, Entry(l.categoria, ""))

Ghosts == <<ledger0, active, limit, probe>>

Init ==
    /\ \E au \in AudioInit, doc \in DocInit, led \in LedgerInit :
          /\ fs = BaseFs @@ au @@ doc @@ led
          /\ ledger0 = NodeAt(led, csv_path_of(Root))
    /\ loc = [p \in Procs |-> Idle]
    /\ runs = 0
    /\ limit = MaxInvocations
    /\ active = {1}
    /\ nFull = 0
    /\ nLogFail = 0
    /\ probe = [mime_type |-> NoneMime, categoria |-> NoneCat, pc |-> "off"]

\* python addfile.py [filename] -d directory
Start(p) ==
    /\ loc[p].pc \in {"idle", "done"}
    /\ runs < limit
    /\ \E name \in ArgNames, dir \in ArgDirs :
          Set(p, [Idle EXCEPT !.pc = "isdir", !.filename = name, !.directory = dir,
                              !.fs0 = fs])
    /\ runs' = runs + 1
    /\ UNCHANGED <<fs, nFull, nLogFail, Ghosts>>

\* lines 153-159
main_isdir(p) ==
    /\ loc[p].pc = "isdir"
    /\ IF ~isdir(fs, loc[p].directory)
       THEN Set(p, Exit(loc[p], 1, <<"Errore: la cartella">>))
       ELSE Set(p, [loc[p] EXCEPT !.pc = "listdir"])
    /\ UNCHANGED <<fs, runs, nFull, nLogFail, Ghosts>>

\* lines 162-170
main_listdir(p) ==
    /\ loc[p].pc = "listdir"
    /\ Set(p, [loc[p] EXCEPT !.pc = "filename",
                             !.available_files = available_files_of(fs, loc[p].directory)])
    /\ UNCHANGED <<fs, runs, nFull, nLogFail, Ghosts>>

accepted(filename, available_files) == filename \in Range(available_files)

\* lines 173-194
main_filename(p) ==
    /\ loc[p].pc = "filename"
    /\ IF loc[p].filename = NoName
       THEN Set(p, Exit(loc[p], 0,
                        IF loc[p].available_files # <<>>
                        THEN <<"File disponibili">> ELSE <<"Nessun file valido">>))
       ELSE IF ~accepted(loc[p].filename, loc[p].available_files)
       THEN Set(p, Exit(loc[p], 1, <<"Errore: Il file non valido">>))
       ELSE Set(p, [loc[p] EXCEPT !.pc = "get_mime_type"])
    /\ UNCHANGED <<fs, runs, nFull, nLogFail, Ghosts>>

\* get_mime_type(file_path) and lines 196-200
get_mime_type(p) ==
    /\ loc[p].pc = "get_mime_type"
    /\ LET file_path == file_path_of(loc[p])
           guessed == guess_type(file_path)
       IN  IF ~exists(fs, file_path)
           THEN Set(p, Exit(loc[p], 1, <<"Errore nel rilevare il tipo MIME">>))
           ELSE Set(p, [loc[p] EXCEPT !.pc = "classifica_file",
                                      !.mime_type = IF guessed = NoneMime THEN W_unknown
                                                    ELSE guessed,
                                      !.size = getsize(fs, file_path)])
    /\ UNCHANGED <<fs, runs, nFull, nLogFail, Ghosts>>

\* lines 202-206
main_classifica(p) ==
    /\ loc[p].pc = "classifica_file"
    /\ LET categoria == classifica_file(loc[p].mime_type)
       IN  IF categoria = NoneCat
           THEN Set(p, Exit(loc[p], 0, <<"non riconosciuto, nessuna azione eseguita">>))
           ELSE Set(p, [loc[p] EXCEPT !.pc = "sposta_exists", !.categoria = categoria])
    /\ UNCHANGED <<fs, runs, nFull, nLogFail, Ghosts>>

\* sposta_file, lines 84-87
sposta_exists(p) ==
    /\ loc[p].pc = "sposta_exists"
    /\ Set(p, [loc[p] EXCEPT !.pc = IF ~exists(fs, destinazione_cartella(loc[p]))
                                    THEN "sposta_makedirs" ELSE "sposta_move"])
    /\ UNCHANGED <<fs, runs, nFull, nLogFail, Ghosts>>

\* sposta_file, line 88, and the handler of lines 210-212
sposta_makedirs(p) ==
    /\ loc[p].pc = "sposta_makedirs"
    /\ \E fault \in MkdirFaults :
          LET r == makedirs(fs, destinazione_cartella(loc[p]), fault)
          IN  /\ fs' = r.fs
              /\ IF r.ok
                 THEN Set(p, [loc[p] EXCEPT !.pc = "sposta_move"])
                 ELSE Set(p, Exit(loc[p], 1, <<"Errore durante lo spostamento", r.err>>))
    /\ UNCHANGED <<runs, nFull, nLogFail, Ghosts>>

nuovo_percorso_of(l) == join(destinazione_cartella(l), basename(file_path_of(l)))

\* sposta_file, lines 91-98, and the handler of lines 210-212
sposta_move(p) ==
    /\ loc[p].pc = "sposta_move"
    /\ \E fault \in MoveFaults :
          LET r == shutil_move(fs, file_path_of(loc[p]), nuovo_percorso_of(loc[p]), fault)
          IN  /\ fs' = r.fs
              /\ IF r.ok
                 THEN Set(p, [loc[p] EXCEPT !.pc = "log_exists", !.moved = TRUE,
                                            !.move_fault = fault,
                                            !.nuovo_percorso = nuovo_percorso_of(loc[p])])
                 ELSE Set(p, Exit([loc[p] EXCEPT !.move_fault = fault], 1,
                                  <<"Errore durante lo spostamento", r.err>>))
    /\ UNCHANGED <<runs, nFull, nLogFail, Ghosts>>

\* file_info naming the path the file was moved from
file_info_of_source(l) ==
    [Nome |-> l.filename, Tipo |-> l.mime_type, SizeByte |-> l.size,
     Percorso |-> join(l.directory, l.filename)]

\* lines 214-219
file_info_of(l) ==
    [Nome |-> l.filename, Tipo |-> l.mime_type, SizeByte |-> l.size,
     Percorso |-> l.nuovo_percorso]

\* scrivi_log_csv, line 109
log_exists(p) ==
    /\ loc[p].pc = "log_exists"
    /\ Set(p, [loc[p] EXCEPT !.pc = "log_write",
                             !.file_esiste = exists(fs, csv_path_of(loc[p].directory))])
    /\ UNCHANGED <<fs, runs, nFull, nLogFail, Ghosts>>

\* scrivi_log_csv, lines 112-124, the handler of lines 224-227 and the summary
log_write(p) ==
    /\ loc[p].pc = "log_write"
    /\ \E fault \in OpenFaults :
          LET r == append_log(fs, csv_path_of(loc[p].directory), loc[p].file_esiste,
                              file_info_of(loc[p]), fault)
          IN  /\ fs' = r.fs
              /\ IF r.ok
                 THEN /\ Set(p, Exit([loc[p] EXCEPT !.logged = TRUE], 0,
                                     <<"Riepilogo Operazione", "Log registrato in">>))
                      /\ nFull' = nFull + 1
                      /\ nLogFail' = nLogFail
                 ELSE /\ Set(p, Exit(loc[p], 0,
                                     <<"Errore durante la scrittura del log",
                                       "Riepilogo Operazione", "Log registrato in">>))
                      /\ nFull' = nFull
                      /\ nLogFail' = nLogFail + 1
    /\ UNCHANGED <<runs, Ghosts>>

Next ==
    \/ \E p \in active : Start(p)
    \/ \E p \in active : main_isdir(p)
    \/ \E p \in active : main_listdir(p)
    \/ \E p \in active : main_filename(p)
    \/ \E p \in active : get_mime_type(p)
    \/ \E p \in active : main_classifica(p)
    \/ \E p \in active : sposta_exists(p)
    \/ \E p \in active : sposta_makedirs(p)
    \/ \E p \in active : sposta_move(p)
    \/ \E p \in active : log_exists(p)
    \/ \E p \in active : log_write(p)

Spec == Init /\ [][Next]_vars

-----------------------------------------------------------------------------
(* Two invocations running at the same time on one folder *)

InitRace ==
    /\ \E au \in {Empty, AudioDir :> DirNode} :
          /\ fs = BaseFs @@ au
          /\ ledger0 = Absent
    /\ loc = [p \in Procs |-> Idle]
    /\ runs = 0
    /\ limit = MaxRaceInvocations
    /\ active = Procs
    /\ nFull = 0
    /\ nLogFail = 0
    /\ probe = [mime_type |-> NoneMime, categoria |-> NoneCat, pc |-> "off"]

SpecRace == InitRace /\ [][Next]_vars

-----------------------------------------------------------------------------
(* classifica_file applied to arbitrary MIME strings *)

MimeInputs ==
    {NoneMime} \cup
    { pre \o top \o ext \o rest :
        pre \in {<<>>, <<"x">>},
        top \in {W_audio, W_image, W_text, W_application, W_video, W_unknown, <<>>},
        ext \in {<<>>, <<"x">>, <<"u", "a", "l">>},
        rest \in {<<>>, Slash, Slash \o <<"y">>, Slash \o W_audio} }

InitClassify ==
    /\ fs = BaseFs
    /\ ledger0 = Absent
    /\ loc = [p \in Procs |-> Idle]
    /\ runs = 0
    /\ limit = 0
    /\ active = {}
    /\ nFull = 0
    /\ nLogFail = 0
    /\ \E m \in MimeInputs : probe = [mime_type |-> m, categoria |-> NoneCat, pc |-> "in"]

Classify ==
    /\ probe.pc = "in"
    /\ probe' = [probe EXCEPT !.categoria = classifica_file(probe.mime_type), !.pc = "out"]
    /\ UNCHANGED <<fs, loc, runs, limit, active, ledger0, nFull, nLogFail>>

NextClassify == Classify

SpecClassify == InitClassify /\ [][NextClassify]_vars

-----------------------------------------------------------------------------
(* Properties *)

Done(p) == loc[p].pc = "done"

\* The invocation of p was given a folder that exists and names a file in it
OnExistingFile(p) ==
    /\ loc[p].pc # "idle"
    /\ loc[p].filename # NoName
    /\ isdir(loc[p].fs0, loc[p].directory)
    /\ isfile(loc[p].fs0, file_path_of(loc[p]))

\* sposta_file has returned or raised in the invocation of p
AfterSposta(p) == loc[p].pc \in {"log_exists", "log_write"} \/ (Done(p) /\ loc[p].categoria # NoneCat)

RelocationFailed(p) == Done(p) /\ "Errore durante lo spostamento" \in Range(loc[p].out)

Ledger == NodeAt(fs, csv_path_of(Root))

HeaderRows(data) == {i \in 1..Len(data) : data[i] = intestazioni}

RecordRows(data) == {i \in 1..Len(data) : data[i] # intestazioni}

\* C1 (as claimed): after N >= 1 successful invocations, whatever the ledger path
\* was before the first one, the ledger has exactly one header row, which is its
\* first row, and exactly N record rows.
C1_HeaderOnceWhateverBefore ==
    (nFull >= 1 /\ nLogFail = 0) =>
        /\ Ledger.kind = "file"
        /\ Cardinality(HeaderRows(Ledger.data)) = 1
        /\ Ledger.data[1] = intestazioni
        /\ Cardinality(RecordRows(Ledger.data)) = nFull

\* C1 (amended): after N >= 1 invocations that all moved and logged, with no
\* ledger write having failed, a ledger path that was absent before the first
\* invocation holds the header row followed by exactly N record rows, and a
\* ledger file that existed before holds its former content followed by exactly
\* N record rows, no header being added.
C1_HeaderOnce ==
    (nFull >= 1 /\ nLogFail = 0) =>
        LET before == IF ledger0.kind = "absent" THEN <<intestazioni>> ELSE ledger0.data
        IN  /\ Ledger.kind = "file"
            /\ Len(Ledger.data) = Len(before) + nFull
            /\ SubSeq(Ledger.data, 1, Len(before)) = before
            /\ \A i \in (Len(before) + 1)..Len(Ledger.data) : Ledger.data[i] # intestazioni

C1_Witness ==
    /\ nFull >= 2
    /\ nLogFail = 0
    /\ ledger0.kind = "absent"
    /\ Cardinality(HeaderRows(Ledger.data)) = 1

\* C2: whenever sposta_file returns a path, the file is gone from its original
\* path, is a file with its original content at folder/categoria/basename, and
\* that path is the one returned.
C2_SuccessfulRelocation ==
    \A p \in active :
        (loc[p].pc = "log_exists") =>
            /\ ~exists(fs, file_path_of(loc[p]))
            /\ isfile(fs, nuovo_percorso_of(loc[p]))
            /\ fs[nuovo_percorso_of(loc[p])].data = loc[p].fs0[file_path_of(loc[p])].data
            /\ loc[p].nuovo_percorso = nuovo_percorso_of(loc[p])

\* The media type of the named file resolves to the sentinel or lies outside
\* audio, image, application and text
Unrecognized(p) ==
    LET guessed == guess_type(file_path_of(loc[p]))
    IN  guessed = NoneMime \/ split0(guessed) \notin tipi_validi

\* C3: an invocation on an existing file of unrecognized type ends with exit
\* status 0 and the "unrecognized, nothing done" outcome, the filesystem being
\* what it was when the invocation began.
C3_UnrecognizedSkipped ==
    \A p \in active :
        (Done(p) /\ OnExistingFile(p) /\ Unrecognized(p)) =>
            /\ loc[p].exit = 0
            /\ loc[p].out = <<"non riconosciuto, nessuna azione eseguita">>
            /\ fs = loc[p].fs0

\* The category the top-level token of a MIME string stands for
categoryOf(mime_type) ==
    LET token == split0(mime_type)
    IN  IF token = W_audio THEN "audio"
        ELSE IF token = W_image THEN "immagini"
        ELSE IF token = W_application \/ token = W_text THEN "documenti"
        ELSE NoneCat

\* C4: classifica_file returns the category of the top-level token of its
\* argument, and no category for every other string.
C4_CategoryByToken ==
    (probe.pc = "out") => probe.categoria = categoryOf(probe.mime_type)

\* C5: when the ledger write fails after a successful move, the file stays
\* moved and the invocation ends with a result that is neither the result of a
\* full success (exit status 0) nor that of a failure (exit status 1).
C5_DegradedSuccess ==
    \A p \in active :
        (Done(p) /\ loc[p].moved /\ ~loc[p].logged) =>
            /\ ~exists(fs, file_path_of(loc[p]))
            /\ loc[p].exit # 0
            /\ loc[p].exit # 1

\* C6: when sposta_file raises, the invocation ends with exit status 1 and the
\* filesystem is what it was when the invocation began.
C6_FailedRelocationChangesNothing ==
    \A p \in active :
        RelocationFailed(p) =>
            /\ loc[p].exit = 1
            /\ ~loc[p].logged
            /\ fs = loc[p].fs0

\* C7: no relocation fails because folder/categoria already exists.
C7_MakedirsIdempotent ==
    \A p \in active : "FileExistsError" \notin Range(loc[p].out)

\* C8: when folder/categoria/basename is a regular file before the relocation,
\* the relocation succeeds unless the operating system refuses the move, and
\* once it has returned the destination holds the content of the source, the
\* source path is gone and the category directory has one entry of that name.
C8_Overwrite ==
    \A p \in active :
        (AfterSposta(p) /\ OnExistingFile(p)
            /\ isfile(loc[p].fs0, nuovo_percorso_of(loc[p]))) =>
            /\ (loc[p].move_fault \in {"none", "EXDEV"} => loc[p].moved)
            /\ loc[p].moved =>
                  /\ isfile(fs, nuovo_percorso_of(loc[p]))
                  /\ fs[nuovo_percorso_of(loc[p])].data
                        = loc[p].fs0[file_path_of(loc[p])].data
                  /\ ~exists(fs, file_path_of(loc[p]))
                  /\ Cardinality({q \in DOMAIN fs :
                                     /\ dirname(q) = destinazione_cartella(loc[p])
                                     /\ basename(q) = loc[p].filename}) = 1

C8_Witness ==
    \E p \in active :
        /\ loc[p].pc = "log_exists"
        /\ isfile(loc[p].fs0, nuovo_percorso_of(loc[p]))
        /\ fs[nuovo_percorso_of(loc[p])].data # loc[p].fs0[nuovo_percorso_of(loc[p])].data

\* C9: the ledger is appended to only after the move has succeeded, and the
\* appended row holds the basename of the file, the media type and the size the
\* file had at its original path before the move, and the path the relocation
\* returned.
C9_RowAfterMove ==
    \A p \in active :
        /\ (loc[p].pc = "log_write" \/ loc[p].logged) => loc[p].moved
        /\ (loc[p].moved /\ OnExistingFile(p)) =>
              /\ loc[p].size = getsize(loc[p].fs0, file_path_of(loc[p]))
              /\ loc[p].mime_type = guess_type(file_path_of(loc[p]))
        /\ (Done(p) /\ loc[p].logged) =>
              /\ Ledger.kind = "file"
              /\ Ledger.data[Len(Ledger.data)] =
                    << basename(file_path_of(loc[p])),
                       guess_type(file_path_of(loc[p])),
                       getsize(loc[p].fs0, file_path_of(loc[p])),
                       join(join(loc[p].directory, Entry(loc[p].categoria, "")),
                            loc[p].filename) >>

C9_Witness ==
    \E p \in active :
        /\ Done(p)
        /\ loc[p].logged
        /\ Len(Ledger.data) >= 3

\* C10: an invocation naming recap.csv is rejected before classification and
\* changes nothing, so a ledger file, once there, stays at folder/recap.csv and
\* never appears in a category directory.
C10_LedgerNeverRelocated ==
    /\ \A p \in active :
          (loc[p].filename = recap_csv
              /\ loc[p].pc \notin {"idle", "isdir", "listdir", "filename"}) =>
              /\ Done(p)
              /\ loc[p].exit = 1
              /\ ~loc[p].moved
              /\ ~loc[p].logged
              /\ loc[p].mime_type = NoneMime
              /\ fs = loc[p].fs0
    /\ (ledger0.kind = "file" \/ nFull >= 1) => Ledger.kind = "file"
    /\ ~exists(fs, join(join(Root, d_documenti), recap_csv))

C10_Witness ==
    \E p \in active :
        /\ Done(p)
        /\ loc[p].filename = recap_csv
        /\ isfile(loc[p].fs0, file_path_of(loc[p]))
        /\ isdir(loc[p].fs0, loc[p].directory)

====
